---- MODULE Spec2Model ----
(***************************************************************************)
(* Model of the "Should I Bunk" ML service: the prediction facade          *)
(* (utils/predictor.py), the statistical predictor                         *)
(* (models/logistic_model.py) and the HTTP handlers (app.py).              *)
(*                                                                         *)
(* Units.  Percentages (attendance, syllabus, past performance) and day    *)
(* counts are integers.  exam_proximity is carried in hundredths           *)
(* (100 = 1.0).  Rounded probabilities and confidences are carried in      *)
(* ten-thousandths (9500 = 0.95), the classifier's unrounded probability   *)
(* in hundred-thousandths (69996 = 0.69996).                               *)
(***************************************************************************)
EXTENDS Integers, Sequences, FiniteSets, TLC

VARIABLES predictor, modelFile, last, threads

vars == <<predictor, modelFile, last, threads>>

(***************************************************************************)
(* Bounds of the model.                                                    *)
(***************************************************************************)
MaxDays == 12
MaxBatch == 2
MaxItems == 2
NumThreads == 2

(***************************************************************************)
(* Input domains: every threshold of the rule cascade with its neighbours. *)
(***************************************************************************)
AttendanceValues == {0, 74, 75, 76, 84, 85, 86, 89, 90, 91, 100}
SyllabusValues == {0, 59, 60, 61, 69, 70, 71, 79, 80, 81, 94, 95, 96, 100}
PerformanceValues == {0, 4, 85}
DayValues == 0..MaxDays

ValidFeatures ==
    {<<a, d, s, p>> : a \in AttendanceValues, d \in DayValues,
                      s \in SyllabusValues, p \in PerformanceValues}

\* feature lists of the wrong length: features[3] or the 4-way unpacking raises
MalformedFeatures == {<< >>, <<85, 3, 95>>, <<85, 3, 95, 50, 1>>, <<85, 20, 95, 50, 1>>}

None == [none |-> TRUE]

(***************************************************************************)
(* Rule Engine: BunkPredictor._predict_with_rules and its explanation.     *)
(***************************************************************************)
\* one clause per tier; a clause is <<text tier, number formatted into it>>
GenerateExplanation(attendance, exam_days, syllabus, performance, has_upcoming_exams) ==
    << IF attendance >= 85 THEN <<"Good attendance", attendance>>
       ELSE IF attendance >= 75 THEN <<"Moderate attendance", attendance>>
       ELSE <<"Low attendance", attendance>>,
       IF ~has_upcoming_exams THEN <<"No upcoming exams scheduled", 0>>
       ELSE IF exam_days <= 1 THEN <<"EXAM IS TODAY/TOMORROW - CRITICAL!", 0>>
       ELSE IF exam_days <= 2 THEN <<"days away - URGENT!", exam_days>>
       ELSE IF exam_days <= 5 THEN <<"days away - HIGH RISK", exam_days>>
       ELSE IF exam_days <= 10 THEN <<"days away - MODERATE RISK", exam_days>>
       ELSE <<"days away - SAFE DISTANCE", exam_days>>,
       IF syllabus >= 80 THEN <<"Good syllabus progress", syllabus>>
       ELSE IF syllabus >= 60 THEN <<"Moderate syllabus progress", syllabus>>
       ELSE <<"Low syllabus progress", syllabus>> >>

\* the (recommendation, confidence, risk_level) triple of the cascade
RuleFloorMutant(attendance_pct, days_until_exam, syllabus_completion, has_upcoming_exams) ==
    IF ~has_upcoming_exams THEN
        IF attendance_pct >= 85 THEN <<"Safe to Bunk", 8500, "low">>
        ELSE IF attendance_pct >= 75 THEN <<"Moderate Risk", 6500, "medium">>
        ELSE <<"Not Safe", 7000, "high">>
    ELSE IF days_until_exam < 2 THEN <<"Not Safe", 9500, "high">>
    ELSE IF days_until_exam <= 5 THEN
        IF attendance_pct >= 90 /\ syllabus_completion >= 95
        THEN <<"Moderate Risk", 7000, "medium">> ELSE <<"Not Safe", 8500, "high">>
    ELSE IF days_until_exam <= 10 THEN
        IF attendance_pct >= 85 /\ syllabus_completion >= 80
        THEN <<"Moderate Risk", 6500, "medium">> ELSE <<"Not Safe", 7500, "high">>
    ELSE IF attendance_pct >= 85 /\ syllabus_completion >= 70
        THEN <<"Safe to Bunk", 8000, "low">>
    ELSE IF attendance_pct >= 75 /\ syllabus_completion >= 60
        THEN <<"Moderate Risk", 6000, "medium">>
    ELSE <<"Not Safe", 7000, "high">>

RuleBoundaryMutant(attendance_pct, days_until_exam, syllabus_completion, has_upcoming_exams) ==
    IF ~has_upcoming_exams THEN
        IF attendance_pct > 85 THEN <<"Safe to Bunk", 8500, "low">>
        ELSE IF attendance_pct >= 75 THEN <<"Moderate Risk", 6500, "medium">>
        ELSE <<"Not Safe", 7000, "high">>
    ELSE IF days_until_exam <= 2 THEN <<"Not Safe", 9500, "high">>
    ELSE IF days_until_exam <= 5 THEN
        IF attendance_pct >= 90 /\ syllabus_completion >= 95
        THEN <<"Moderate Risk", 7000, "medium">> ELSE <<"Not Safe", 8500, "high">>
    ELSE IF days_until_exam <= 10 THEN
        IF attendance_pct >= 85 /\ syllabus_completion >= 80
        THEN <<"Moderate Risk", 6500, "medium">> ELSE <<"Not Safe", 7500, "high">>
    ELSE IF attendance_pct >= 85 /\ syllabus_completion >= 70
        THEN <<"Safe to Bunk", 8000, "low">>
    ELSE IF attendance_pct >= 75 /\ syllabus_completion >= 60
        THEN <<"Moderate Risk", 6000, "medium">>
    ELSE <<"Not Safe", 7000, "high">>

RuleDistantStricterMutant(attendance_pct, days_until_exam, syllabus_completion, has_upcoming_exams) ==
    IF ~has_upcoming_exams THEN
        IF attendance_pct >= 85 THEN <<"Safe to Bunk", 8500, "low">>
        ELSE IF attendance_pct >= 75 THEN <<"Moderate Risk", 6500, "medium">>
        ELSE <<"Not Safe", 7000, "high">>
    ELSE IF days_until_exam <= 2 THEN <<"Not Safe", 9500, "high">>
    ELSE IF days_until_exam <= 5 THEN
        IF attendance_pct >= 90 /\ syllabus_completion >= 95
        THEN <<"Moderate Risk", 7000, "medium">> ELSE <<"Not Safe", 8500, "high">>
    ELSE IF days_until_exam <= 10 THEN
        IF attendance_pct >= 95 /\ syllabus_completion >= 80
        THEN <<"Moderate Risk", 6500, "medium">> ELSE <<"Not Safe", 7500, "high">>
    ELSE IF attendance_pct >= 85 /\ syllabus_completion >= 70
        THEN <<"Safe to Bunk", 8000, "low">>
    ELSE IF attendance_pct >= 75 /\ syllabus_completion >= 60
        THEN <<"Moderate Risk", 6000, "medium">>
    ELSE <<"Not Safe", 7000, "high">>

RuleDecision(attendance_pct, days_until_exam, syllabus_completion, has_upcoming_exams) ==
    IF ~has_upcoming_exams THEN
        IF attendance_pct >= 85 THEN <<"Safe to Bunk", 8500, "low">>
        ELSE IF attendance_pct >= 75 THEN <<"Moderate Risk", 6500, "medium">>
        ELSE <<"Not Safe", 7000, "high">>
    ELSE IF days_until_exam <= 2 THEN <<"Not Safe", 9500, "high">>
    ELSE IF days_until_exam <= 5 THEN
        IF attendance_pct >= 90 /\ syllabus_completion >= 95
        THEN <<"Moderate Risk", 7000, "medium">> ELSE <<"Not Safe", 8500, "high">>
    ELSE IF days_until_exam <= 10 THEN
        IF attendance_pct >= 85 /\ syllabus_completion >= 80
        THEN <<"Moderate Risk", 6500, "medium">> ELSE <<"Not Safe", 7500, "high">>
    ELSE IF attendance_pct >= 85 /\ syllabus_completion >= 70
        THEN <<"Safe to Bunk", 8000, "low">>
    ELSE IF attendance_pct >= 75 /\ syllabus_completion >= 60
        THEN <<"Moderate Risk", 6000, "medium">>
    ELSE <<"Not Safe", 7000, "high">>

PredictWithRulesPerfMutant(features, has_upcoming_exams) ==
    LET d == RuleDecision(features[1], features[2], features[3], has_upcoming_exams)
    IN [prediction |-> IF features[4] < 40 /\ d[1] = "Safe to Bunk"
                       THEN "Moderate Risk" ELSE d[1],
        confidence |-> d[2],
        risk_level |-> IF features[4] < 40 /\ d[3] = "low" THEN "medium" ELSE d[3],
        factors |-> [attendance |-> features[1], exam_proximity |-> features[2],
                     syllabus_progress |-> features[3], past_performance |-> features[4]],
        explanation |-> GenerateExplanation(features[1], features[2], features[3],
                                            features[4], has_upcoming_exams)]

\* defined for a 4-element list; any other length raises at the unpacking
PredictWithRules(features, has_upcoming_exams) ==
    LET d == RuleDecision(features[1], features[2], features[3], has_upcoming_exams)
    IN [prediction |-> d[1],
        confidence |-> d[2],
        risk_level |-> d[3],
        factors |-> [attendance |-> features[1], exam_proximity |-> features[2],
                     syllabus_progress |-> features[3], past_performance |-> features[4]],
        explanation |-> GenerateExplanation(features[1], features[2], features[3],
                                            features[4], has_upcoming_exams)]

(***************************************************************************)
(* Statistical Predictor: BunkPredictionModel.                             *)
(***************************************************************************)
\* round half to even of x / unit (Python's round on the decimal value)
RoundDiv(x, unit) ==
    LET q == x \div unit
        r == x % unit
    IN IF 2 * r < unit THEN q
       ELSE IF 2 * r > unit THEN q + 1
       ELSE IF q % 2 = 0 THEN q ELSE q + 1

Max(a, b) == IF a >= b THEN a ELSE b
Min(a, b) == IF a <= b THEN a ELSE b

\* BunkPredictionModel.__init__: an unfitted classifier and scaler
FreshModel ==
    [is_trained |-> FALSE, n_features |-> 0, kind |-> "unfitted",
     feature_names |-> "default", metrics |-> "empty"]

\* what the artifact file holds; exists = FALSE is the absent file
ClassifierKinds == {"syl", "att", "fine"}

ModelFiles ==
    {[exists |-> FALSE, load |-> "ok", is_trained |-> FALSE, n_features |-> 0, kind |-> "unfitted"]}
    \cup {[exists |-> TRUE, load |-> l, is_trained |-> TRUE, n_features |-> 6, kind |-> "syl"] :
            l \in {"corrupt", "missing_key"}}
    \cup {[exists |-> TRUE, load |-> "ok", is_trained |-> TRUE, n_features |-> 6, kind |-> k] :
            k \in ClassifierKinds}
    \cup {[exists |-> TRUE, load |-> "ok", is_trained |-> FALSE, n_features |-> 6, kind |-> "syl"],
          [exists |-> TRUE, load |-> "ok", is_trained |-> TRUE, n_features |-> 5, kind |-> "syl"]}

\* load_model: joblib.load may raise before any field is assigned ("corrupt");
\* a bundle without the 'metrics' key raises after model, scaler,
\* feature_names and feature_importance were assigned ("missing_key")
LoadModel(m, file) ==
    IF file.load = "corrupt" THEN [raised |-> TRUE, model |-> m]
    ELSE IF file.load = "missing_key" THEN
        [raised |-> TRUE,
         model |-> [m EXCEPT !.n_features = file.n_features, !.kind = file.kind,
                             !.feature_names = "file"]]
    ELSE [raised |-> FALSE,
          model |-> [is_trained |-> file.is_trained, n_features |-> file.n_features,
                     kind |-> file.kind, feature_names |-> "file", metrics |-> "file"]]

\* the derived features, each a fraction <<numerator, denominator>>
MlFeatures(attendance_pct, days_until_exam, syllabus_completion, past_performance) ==
    [attendance_pct |-> attendance_pct,
     days_until_exam |-> days_until_exam,
     syllabus_completion |-> syllabus_completion,
     past_performance |-> past_performance,
     attendance_normalized |-> <<attendance_pct, 100>>,
     exam_urgency |-> <<1, days_until_exam + 1>>,
     syllabus_normalized |-> <<syllabus_completion, 100>>,
     performance_normalized |-> <<past_performance, 100>>,
     attendance_syllabus_interaction |-> <<attendance_pct * syllabus_completion, 10000>>,
     exam_preparation_score |-> <<syllabus_completion * days_until_exam, 3000>>]

\* round(x, 4) of the fraction x, again as a fraction
Round4(x) == <<RoundDiv(x[1] * 10000, x[2]), 10000>>

\* the names of the six derived features
DerivedFeatures ==
    {"attendance_normalized", "exam_urgency", "syllabus_normalized",
     "performance_normalized", "attendance_syllabus_interaction", "exam_preparation_score"}

\* the record generate_synthetic_training_data appends for the raw values:
\* the derived features are computed from the unrounded raw values and
\* stored rounded to 4 decimals; outcome is the random label (the
\* probability_safe column, kept "for analysis purposes", is not carried)
TrainingRecord(attendance_pct, days_until_exam, syllabus_completion, past_performance, outcome) ==
    [attendance_pct |-> attendance_pct,
     days_until_exam |-> days_until_exam,
     syllabus_completion |-> syllabus_completion,
     past_performance |-> past_performance,
     attendance_normalized |-> Round4(<<attendance_pct, 100>>),
     exam_urgency |-> Round4(<<1, days_until_exam + 1>>),
     syllabus_normalized |-> Round4(<<syllabus_completion, 100>>),
     performance_normalized |-> Round4(<<past_performance, 100>>),
     attendance_syllabus_interaction |-> Round4(<<attendance_pct * syllabus_completion, 10000>>),
     exam_preparation_score |-> Round4(<<syllabus_completion * days_until_exam, 3000>>),
     outcome |-> outcome]

\* predict_proba(...)[0][1] of the loaded classifier, in hundred-thousandths:
\* a deterministic function of the six derived features, fixed by the artifact
ClassifierProb(kind, fv) ==
    CASE kind = "syl" -> fv.syllabus_normalized[1] * 500
      [] kind = "att" -> fv.attendance_normalized[1] * 1000
      [] kind = "fine" -> Max(0, fv.syllabus_normalized[1] * 1000 - fv.performance_normalized[1])
      [] OTHER -> 0

\* predict raises when the model is not trained or the scaler rejects the row
MlPredictRaises(m) == ~m.is_trained \/ m.n_features # 6

GenerateMlExplanation(fv, prob_safe) ==
    << IF fv.attendance_pct >= 85 THEN <<"Good attendance increases safety", fv.attendance_pct>>
       ELSE IF fv.attendance_pct >= 75 THEN <<"Moderate attendance - neutral impact", fv.attendance_pct>>
       ELSE <<"Low attendance decreases safety", fv.attendance_pct>>,
       IF fv.days_until_exam <= 3 THEN <<"Exam very close - high risk", fv.days_until_exam>>
       ELSE IF fv.days_until_exam <= 7 THEN <<"Exam approaching - moderate risk", fv.days_until_exam>>
       ELSE <<"Exam distant - lower risk", fv.days_until_exam>>,
       IF fv.syllabus_completion >= 80 THEN <<"Good preparation helps safety", fv.syllabus_completion>>
       ELSE IF fv.syllabus_completion >= 60 THEN <<"Moderate preparation - some risk", fv.syllabus_completion>>
       ELSE <<"Low preparation increases risk", fv.syllabus_completion>>,
       <<"ML Confidence: chance it's safe", RoundDiv(prob_safe, 100)>> >>

MlBucketMutant(prob_safe) ==
    IF prob_safe >= 70000 THEN <<"Safe to Bunk", "low">>
    ELSE IF prob_safe >= 40000 THEN <<"Moderate Risk", "low">>
    ELSE <<"Not Safe", "high">>

MlBucket(prob_safe) ==
    IF prob_safe >= 70000 THEN <<"Safe to Bunk", "low">>
    ELSE IF prob_safe >= 40000 THEN <<"Moderate Risk", "medium">>
    ELSE <<"Not Safe", "high">>

\* BunkPredictionModel.predict, for a model on which it does not raise
MlPredict(m, fv) ==
    LET prob_safe == ClassifierProb(m.kind, fv)
        prob_not_safe == 100000 - prob_safe
        b == MlBucket(prob_safe)
    IN [prediction |-> b[1],
        confidence |-> RoundDiv(Max(prob_safe, prob_not_safe), 10),
        probability_safe |-> RoundDiv(prob_safe, 10),
        probability_not_safe |-> RoundDiv(prob_not_safe, 10),
        risk_level |-> b[2],
        factors |-> [attendance |-> fv.attendance_pct, exam_proximity |-> fv.days_until_exam,
                     syllabus_progress |-> fv.syllabus_completion,
                     past_performance |-> fv.past_performance],
        explanation |-> GenerateMlExplanation(fv, prob_safe),
        model_type |-> "Logistic Regression"]

(***************************************************************************)
(* Prediction Facade: BunkPredictor.                                       *)
(***************************************************************************)
BunkPredictorInitMutant(file) ==
    IF file.exists
    THEN LET r == LoadModel(FreshModel, file)
         IN [use_ml |-> TRUE, ml_model |-> r.model]
    ELSE [use_ml |-> FALSE, ml_model |-> FreshModel]

\* BunkPredictor.__init__: use_ml is set only after load_model returned
BunkPredictorInit(file) ==
    IF file.exists
    THEN LET r == LoadModel(FreshModel, file)
         IN [use_ml |-> ~r.raised, ml_model |-> r.model]
    ELSE [use_ml |-> FALSE, ml_model |-> FreshModel]

PredictWithMlThresholdMutant(f, features, has_upcoming_exams) ==
    LET fv == MlFeatures(features[1], features[2], features[3], features[4])
        result == MlPredict(f.ml_model, fv)
    IN IF has_upcoming_exams THEN result
       ELSE LET r1 == [result EXCEPT !.explanation =
                          Append(@, <<"No upcoming exams - safer to bunk", 0>>)]
            IN IF r1.probability_safe >= 3000
               THEN LET r2 == [r1 EXCEPT !.probability_safe = Min(9000, @ + 2000)]
                    IN IF r2.probability_safe >= 7000
                       THEN [r2 EXCEPT !.prediction = "Safe to Bunk", !.risk_level = "low"]
                       ELSE r2
               ELSE r1

\* _predict_with_ml, for a 4-element list and a model that does not raise
PredictWithMl(f, features, has_upcoming_exams) ==
    LET fv == MlFeatures(features[1], features[2], features[3], features[4])
        result == MlPredict(f.ml_model, fv)
    IN IF has_upcoming_exams THEN result
       ELSE LET r1 == [result EXCEPT !.explanation =
                          Append(@, <<"No upcoming exams - safer to bunk", 0>>)]
            IN IF r1.probability_safe > 3000
               THEN LET r2 == [r1 EXCEPT !.probability_safe = Min(9000, @ + 2000)]
                    IN IF r2.probability_safe >= 7000
                       THEN [r2 EXCEPT !.prediction = "Safe to Bunk", !.risk_level = "low"]
                       ELSE r2
               ELSE r1

\* the exception raised inside predict's try block, "none" when there is none
BackendException(f, features) ==
    IF Len(features) < 4 THEN "IndexError"
    ELSE IF Len(features) # 4 THEN "ValueError: too many values to unpack"
    ELSE IF f.use_ml /\ ~f.ml_model.is_trained THEN "ValueError: model must be trained"
    ELSE IF f.use_ml /\ f.ml_model.n_features # 6 THEN "ValueError: feature count"
    ELSE "none"

DegradedResult(e) ==
    [prediction |-> "Not Safe", confidence |-> 5000, risk_level |-> "high",
     error |-> e, explanation |-> "Error in prediction calculation"]

Raised(e) == [raised |-> TRUE, exception |-> e]

PredictNarrowExceptMutant(f, features, has_upcoming_exams) ==
    LET e == BackendException(f, features)
    IN IF e = "IndexError" THEN Raised(e)
       ELSE IF e # "none" THEN DegradedResult(e)
       ELSE IF f.use_ml THEN PredictWithMl(f, features, has_upcoming_exams)
       ELSE PredictWithRules(features, has_upcoming_exams)

\* BunkPredictor.predict: what the call returns (Raised(e) if it propagated e)
Predict(f, features, has_upcoming_exams) ==
    LET e == BackendException(f, features)
    IN IF e # "none" THEN DegradedResult(e)
       ELSE IF f.use_ml THEN PredictWithMl(f, features, has_upcoming_exams)
       ELSE PredictWithRules(features, has_upcoming_exams)

FacadeAfterPredictMutant(f, features) ==
    IF BackendException(f, features) # "none" THEN [f EXCEPT !.use_ml = FALSE] ELSE f

FacadeAfterPredictRefitMutant(f, features) ==
    IF f.use_ml /\ BackendException(f, features) = "none"
    THEN [f EXCEPT !.ml_model.kind = "att"] ELSE f

\* the facade object after predict returned: predict assigns no field of self
FacadeAfterPredict(f, features) == f

\* BunkPredictor.batch_predict: has_upcoming_exams keeps its default True
RECURSIVE BatchPredict(_, _)
BatchPredict(f, features_list) ==
    IF features_list = << >> THEN << >>
    ELSE <<Predict(f, Head(features_list), TRUE)>> \o BatchPredict(f, Tail(features_list))

RECURSIVE FacadeAfterBatch(_, _)
FacadeAfterBatch(f, features_list) ==
    IF features_list = << >> THEN f
    ELSE FacadeAfterBatch(FacadeAfterPredict(f, Head(features_list)), Tail(features_list))

\* BunkPredictor.get_model_info: a constant record, whatever the mode
GetModelInfo(f) ==
    [model_type |-> "Rule-based Logic", version |-> "1.0",
     features |-> <<"attendance_percentage", "days_until_exam",
                    "syllabus_completion", "past_performance">>,
     output_classes |-> <<"Safe to Bunk", "Moderate Risk", "Not Safe">>]

(***************************************************************************)
(* HTTP layer (app.py): the process-wide predictor and POST /predict.      *)
(***************************************************************************)
\* JSON values of a request field.  t = "num": a number v; "str": a string
\* that float() cannot parse; "null"; "huge": an integer literal beyond the
\* float range; "missing": the key is not in the object
Num(v) == [t |-> "num", v |-> v]
Str == [t |-> "str", v |-> 0]
Null == [t |-> "null", v |-> 0]
Huge == [t |-> "huge", v |-> 0]
Missing == [t |-> "missing", v |-> 0]
Absent == "<absent>"

ReqAttendance == {Num(v) : v \in {-1, 74, 85, 89, 150}} \cup {Str, Null, Huge, Missing}
ReqProximity ==
    {Num(v) : v \in {-1, 0, 3, 9, 10, 17, 34, 50, 99, 100, 101}} \cup {Str, Huge, Missing}
ReqSyllabus == {Num(v) : v \in {59, 100, 101}} \cup {Missing}
ReqPerformance == {Num(v) : v \in {4, 85, 101}} \cup {Missing}

\* request.get_json(): a falsy body, a JSON number or true, or an object
RequestBodies ==
    {[kind |-> k, attendance_percentage |-> Missing, exam_proximity |-> Missing,
      syllabus_completion |-> Missing, past_performance |-> Missing,
      subject |-> Absent, user_id |-> Absent] : k \in {"falsy", "scalar"}}
    \cup
    {[kind |-> "object", attendance_percentage |-> a, exam_proximity |-> e,
      syllabus_completion |-> s, past_performance |-> p, subject |-> sub, user_id |-> u] :
        a \in ReqAttendance, e \in ReqProximity, s \in ReqSyllabus, p \in ReqPerformance,
        sub \in {Absent, "Math"}, u \in {Absent, "u1"}}

RequiredFields ==
    <<"attendance_percentage", "exam_proximity", "syllabus_completion", "past_performance">>

\* float(x): the exception it raises, "none" for a number
FloatException(j) ==
    CASE j.t = "num" -> "none"
      [] j.t = "str" -> "ValueError"
      [] j.t = "null" -> "TypeError"
      [] j.t = "huge" -> "OverflowError"
      [] OTHER -> "KeyError"

\* the first exception of the four float() conversions, in source order
RECURSIVE FirstFloatException(_, _)
FirstFloatException(data, i) ==
    IF i > Len(RequiredFields) THEN "none"
    ELSE IF FloatException(data[RequiredFields[i]]) # "none"
         THEN FloatException(data[RequiredFields[i]])
    ELSE FirstFloatException(data, i + 1)

\* the four range checks (exam_proximity in hundredths)
InRange(data) ==
    /\ 0 <= data.attendance_percentage.v /\ data.attendance_percentage.v <= 100
    /\ 0 <= data.exam_proximity.v /\ data.exam_proximity.v <= 100
    /\ 0 <= data.syllabus_completion.v /\ data.syllabus_completion.v <= 100
    /\ 0 <= data.past_performance.v /\ data.past_performance.v <= 100

\* the status of the validation part of predict(), 0 when the request passes
ValidationStatus(data) ==
    IF data.kind = "falsy" THEN 400
    ELSE IF data.kind = "scalar" THEN 500
    ELSE IF \E i \in 1..Len(RequiredFields) : data[RequiredFields[i]].t = "missing" THEN 400
    ELSE IF FirstFloatException(data, 1) \in {"ValueError", "TypeError"} THEN 400
    ELSE IF FirstFloatException(data, 1) # "none" THEN 500
    ELSE IF ~InRange(data) THEN 400
    ELSE 0

HasUpcomingExams(exam_proximity) == exam_proximity # 100

DaysUntilExamMutant(exam_proximity) ==
    IF exam_proximity = 100 THEN 1
    ELSE Max(1, (exam_proximity * 30) \div 100)

DaysUntilExamRoundMutant(exam_proximity) ==
    IF exam_proximity = 100 THEN 0
    ELSE Max(1, RoundDiv(exam_proximity * 30, 100))

DaysUntilExamNoFloorMutant(exam_proximity) ==
    IF exam_proximity = 100 THEN 0
    ELSE (exam_proximity * 30) \div 100

\* days_until_exam = max(1, int(exam_proximity * 30)), 0 for the sentinel 1.0
DaysUntilExam(exam_proximity) ==
    IF exam_proximity = 100 THEN 0
    ELSE Max(1, (exam_proximity * 30) \div 100)

InitializePredictorAssignsMutant(p, file, ctorOk) ==
    [ok |-> ctorOk, predictor |-> BunkPredictorInit(file)]

\* initialize_predictor(): the global is assigned only if the constructor
\* returned; ctorOk = FALSE is a constructor that raises
InitializePredictor(p, file, ctorOk) ==
    IF ctorOk THEN [ok |-> TRUE, predictor |-> BunkPredictorInit(file)]
    ELSE [ok |-> FALSE, predictor |-> p]

Metadata(data) ==
    [subject |-> IF data.subject = Absent THEN "Unknown" ELSE data.subject,
     user_id |-> IF data.user_id = Absent THEN "anonymous" ELSE data.user_id,
     model_version |-> "1.0"]

NoCall == [features |-> << >>, has_upcoming_exams |-> TRUE, made |-> FALSE]

\* the whole POST /predict handler: response and the calls it made
HandlePredict(p, file, data, ctorOk) ==
    LET vs == ValidationStatus(data)
        needInit == p = None
        init == IF needInit THEN InitializePredictor(p, file, ctorOk)
                ELSE [ok |-> TRUE, predictor |-> p]
        features == <<data.attendance_percentage.v, DaysUntilExam(data.exam_proximity.v),
                      data.syllabus_completion.v, data.past_performance.v>>
        hue == HasUpcomingExams(data.exam_proximity.v)
        out == Predict(init.predictor, features, hue)
    IN IF vs # 0 THEN
           [status |-> vs, result |-> None, metadata |-> None, initCalled |-> FALSE,
            initOk |-> FALSE, call |-> NoCall, predictor |-> p]
       ELSE IF ~init.ok THEN
           [status |-> 503, result |-> None, metadata |-> None, initCalled |-> TRUE,
            initOk |-> FALSE, call |-> NoCall, predictor |-> init.predictor]
       ELSE IF "raised" \in DOMAIN out THEN
           [status |-> 500, result |-> None, metadata |-> None, initCalled |-> needInit,
            initOk |-> needInit, call |-> [features |-> features, has_upcoming_exams |-> hue, made |-> TRUE],
            predictor |-> FacadeAfterPredict(init.predictor, features)]
       ELSE
           [status |-> 200, result |-> out, metadata |-> Metadata(data),
            initCalled |-> needInit, initOk |-> needInit,
            call |-> [features |-> features, has_upcoming_exams |-> hue, made |-> TRUE],
            predictor |-> FacadeAfterPredict(init.predictor, features)]

(***************************************************************************)
(* HTTP layer (app.py): POST /batch-predict, GET /model-info, /retrain.    *)
(***************************************************************************)
\* the batch size cap
BatchLimit == 100

Item(a, e, s, p) ==
    [kind |-> "object", attendance_percentage |-> a, exam_proximity |-> e,
     syllabus_completion |-> s, past_performance |-> p, subject |-> Absent, user_id |-> Absent]

GoodItem == Item(Num(85), Num(50), Num(100), Num(85))

\* items of a batch: well-formed ones, out-of-range ones, one with a missing
\* field, non-numeric ones, and an item that is a JSON number
BatchItems ==
    {GoodItem,
     [Item(Num(74), Num(100), Num(59), Num(4)) EXCEPT !.subject = "Math", !.user_id = "u1"],
     Item(Num(150), Num(50), Num(100), Num(85)),
     Item(Num(85), Num(101), Num(100), Num(85)),
     Item(Num(85), Missing, Num(100), Num(85)),
     Item(Str, Num(50), Num(100), Num(85)),
     Item(Num(85), Num(50), Huge, Num(85)),
     [Item(Missing, Missing, Missing, Missing) EXCEPT !.kind = "scalar"]}

BatchBody(kind, t, items) ==
    [kind |-> kind, predictions |-> [t |-> t, items |-> items]]

\* request.get_json() of POST /batch-predict: a falsy body, a JSON number,
\* an object without 'predictions', with a non-list, with a short list, or
\* with a list around the cap
BatchBodies ==
    {BatchBody("falsy", "missing", << >>), BatchBody("scalar", "missing", << >>),
     BatchBody("object", "missing", << >>), BatchBody("object", "notlist", << >>)}
    \cup {BatchBody("object", "list", items) :
            items \in UNION {[1..n -> BatchItems] : n \in 0..MaxItems}}
    \cup {BatchBody("object", "list", [i \in 1..n |-> IF i = 2 THEN first ELSE GoodItem]) :
            n \in {BatchLimit - 1, BatchLimit, BatchLimit + 1},
            first \in {GoodItem, Item(Num(85), Missing, Num(100), Num(85))}}

\* the status of the checks before the loop, 0 when the batch is accepted
BatchValidationStatus(data) ==
    IF data.kind = "falsy" THEN 400
    ELSE IF data.kind = "scalar" THEN 500
    ELSE IF data.predictions.t = "missing" THEN 400
    ELSE IF data.predictions.t # "list" \/ Len(data.predictions.items) = 0 THEN 400
    ELSE IF Len(data.predictions.items) > BatchLimit THEN 400
    ELSE 0

\* the attributes a BunkPredictor object has
BunkPredictorAttributes ==
    {"ml_model", "model_path", "use_ml", "predict", "_predict_with_ml",
     "_predict_with_rules", "_generate_explanation", "batch_predict", "get_model_info"}

\* the parameters of BunkPredictor.predict that a call may name
PredictParameters == {"features", "has_upcoming_exams"}

\* predictor.predict(attendance_percentage=..., exam_proximity=...,
\* syllabus_completion=..., past_performance=...): the call of the batch
\* handler.  Naming a parameter predict does not have raises TypeError
\* before the body of predict runs.
PredictByKeyword(p, kwargs) ==
    IF p = None THEN Raised("AttributeError: 'NoneType' object has no attribute 'predict'")
    ELSE IF ~(DOMAIN kwargs \subseteq PredictParameters)
         THEN Raised("TypeError: unexpected keyword argument")
    ELSE IF "features" \notin DOMAIN kwargs
         THEN Raised("TypeError: missing required argument")
    ELSE Predict(p, kwargs.features, TRUE)

\* one iteration of the loop: the entry appended to results or to errors;
\* passed tells whether predictor.predict was called with the item's values
ProcessItem(p, i, item) ==
    IF item.kind # "object" THEN
        [list |-> "errors", entry |-> [index |-> i, error |-> "TypeError: not iterable"],
         passed |-> FALSE]
    ELSE IF \E k \in 1..Len(RequiredFields) : item[RequiredFields[k]].t = "missing" THEN
        [list |-> "errors", entry |-> [index |-> i, error |-> "Missing fields"],
         passed |-> FALSE]
    ELSE IF FirstFloatException(item, 1) # "none" THEN
        [list |-> "errors", entry |-> [index |-> i, error |-> FirstFloatException(item, 1)],
         passed |-> FALSE]
    ELSE LET out == PredictByKeyword(p,
                        [attendance_percentage |-> item.attendance_percentage.v,
                         exam_proximity |-> item.exam_proximity.v,
                         syllabus_completion |-> item.syllabus_completion.v,
                         past_performance |-> item.past_performance.v])
         IN IF "raised" \in DOMAIN out
            THEN [list |-> "errors", entry |-> [index |-> i, error |-> out.exception],
                  passed |-> p # None]
            ELSE [list |-> "results",
                  entry |-> [result |-> out,
                             metadata |-> [index |-> i,
                                           subject |-> Metadata(item).subject,
                                           user_id |-> Metadata(item).user_id]],
                  passed |-> TRUE]

RECURSIVE BatchLoopBreaksMutant(_, _, _)
BatchLoopBreaksMutant(p, items, i) ==
    IF i > Len(items) THEN << >>
    ELSE LET r == ProcessItem(p, i - 1, items[i])
         IN IF r.list = "errors" THEN <<r>>
            ELSE <<r>> \o BatchLoopBreaksMutant(p, items, i + 1)

\* the for loop over enumerate(predictions_input), from position i on;
\* Python's index of the item at position i is i - 1
RECURSIVE BatchLoop(_, _, _)
BatchLoop(p, items, i) ==
    IF i > Len(items) THEN << >>
    ELSE <<ProcessItem(p, i - 1, items[i])>> \o BatchLoop(p, items, i + 1)

SelectList(rs, name) ==
    LET keep(r) == r.list = name
        picked == SelectSeq(rs, keep)
    IN [k \in 1..Len(picked) |-> picked[k].entry]

\* the whole POST /batch-predict handler
HandleBatchPredict(p, data) ==
    LET vs == BatchValidationStatus(data)
        rs == BatchLoop(p, data.predictions.items, 1)
    IN IF vs # 0 THEN
           [status |-> vs, results |-> << >>, errors |-> << >>, total_processed |-> 0,
            total_errors |-> 0, passed |-> {}]
       ELSE
           [status |-> 200,
            results |-> SelectList(rs, "results"),
            errors |-> SelectList(rs, "errors"),
            total_processed |-> Len(SelectList(rs, "results")),
            total_errors |-> Len(SelectList(rs, "errors")),
            passed |-> {k - 1 : k \in {j \in 1..Len(rs) : rs[j].passed}}]

\* the whole GET /model-info handler: predictor.get_feature_importance() and
\* predictor.feature_names are looked up on the BunkPredictor object
HandleModelInfo(p) ==
    IF p = None THEN [status |-> 503, info |-> None]
    ELSE IF "get_feature_importance" \notin BunkPredictorAttributes
         THEN [status |-> 500, info |-> None]
    ELSE IF "feature_names" \notin BunkPredictorAttributes
         THEN [status |-> 500, info |-> None]
    ELSE [status |-> 200,
          info |-> [model_type |-> "Logistic Regression", version |-> "1.0",
                    features |-> p.ml_model.feature_names,
                    input_ranges |-> "static",
                    output_classes |-> <<"Not Safe", "Safe to Bunk">>]]

PredictorAfterRetrainMutant(p) == None

\* the whole POST /retrain handler: a placeholder that touches nothing
PredictorAfterRetrain(p) == p

RetrainStatus == 501

(***************************************************************************)
(* The state machine.                                                      *)
(***************************************************************************)
FeatureLists ==
    {<<85, 3, 95, 50>>, <<90, 20, 70, 50>>, <<85, 3, 95>>}

BatchInputs ==
    UNION {[1..n -> FeatureLists] : n \in 0..MaxBatch}

\* no call is in progress: the process has just started ("boot") or the
\* previous response was handed to its caller ("idle")
Idle == last.op \in {"boot", "idle"}

\* the callers that may be inside BunkPredictor.predict at the same time
Threads == 1..NumThreads

IdleThread ==
    [pc |-> "idle", features |-> << >>, has_upcoming_exams |-> TRUE, use_ml |-> FALSE,
     result |-> None]

Init ==
    /\ predictor = None
    /\ modelFile \in ModelFiles
    /\ last = [op |-> "boot"]
    /\ threads = [t \in Threads |-> IdleThread]

\* startup(): initialize_predictor() before the first request
Startup ==
    /\ predictor = None
    /\ last.op = "boot"
    /\ \E ctorOk \in BOOLEAN :
         LET r == InitializePredictor(predictor, modelFile, ctorOk)
         IN /\ predictor' = r.predictor
            /\ last' = [op |-> "startup", ok |-> r.ok]
    /\ UNCHANGED <<modelFile, threads>>

\* POST /predict
HttpPredict ==
    /\ Idle
    /\ \E data \in RequestBodies, ctorOk \in BOOLEAN :
         LET r == HandlePredict(predictor, modelFile, data, ctorOk)
         IN /\ predictor' = r.predictor
            /\ last' = [op |-> "http_predict", request |-> data, before |-> predictor,
                        status |-> r.status, result |-> r.result, metadata |-> r.metadata,
                        initCalled |-> r.initCalled, initOk |-> r.initOk,
                        call |-> r.call]
    /\ UNCHANGED <<modelFile, threads>>

\* a direct call of BunkPredictor.predict on the constructed facade
FacadePredict ==
    /\ Idle
    /\ predictor # None
    /\ \E features \in ValidFeatures \cup MalformedFeatures, has_upcoming_exams \in BOOLEAN :
         /\ predictor' = FacadeAfterPredict(predictor, features)
         /\ last' = [op |-> "predict", facade |-> predictor, features |-> features,
                     has_upcoming_exams |-> has_upcoming_exams,
                     result |-> Predict(predictor, features, has_upcoming_exams)]
    /\ UNCHANGED <<modelFile, threads>>

\* a direct call of BunkPredictor.batch_predict
FacadeBatchPredict ==
    /\ Idle
    /\ predictor # None
    /\ \E features_list \in BatchInputs :
         /\ predictor' = FacadeAfterBatch(predictor, features_list)
         /\ last' = [op |-> "batch_predict", facade |-> predictor, features_list |-> features_list,
                     results |-> BatchPredict(predictor, features_list)]
    /\ UNCHANGED <<modelFile, threads>>

\* a direct call of BunkPredictor.get_model_info
FacadeGetModelInfo ==
    /\ Idle
    /\ predictor # None
    /\ last' = [op |-> "get_model_info", info |-> GetModelInfo(predictor)]
    /\ UNCHANGED <<predictor, modelFile, threads>>

\* two successive calls of BunkPredictor.predict with the same arguments
FacadePredictTwice ==
    /\ Idle
    /\ predictor # None
    /\ \E features \in ValidFeatures \cup MalformedFeatures, has_upcoming_exams \in BOOLEAN :
         LET f1 == FacadeAfterPredict(predictor, features)
         IN /\ predictor' = FacadeAfterPredict(f1, features)
            /\ last' = [op |-> "predict_twice", facade |-> predictor, features |-> features,
                        has_upcoming_exams |-> has_upcoming_exams,
                        first |-> Predict(predictor, features, has_upcoming_exams),
                        second |-> Predict(f1, features, has_upcoming_exams)]
    /\ UNCHANGED <<modelFile, threads>>

\* POST /batch-predict
HttpBatchPredict ==
    /\ Idle
    /\ \E data \in BatchBodies :
         LET r == HandleBatchPredict(predictor, data)
         IN last' = [op |-> "http_batch", request |-> data, before |-> predictor,
                     status |-> r.status, results |-> r.results, errors |-> r.errors,
                     total_processed |-> r.total_processed,
                     total_errors |-> r.total_errors, passed |-> r.passed]
    /\ UNCHANGED <<predictor, modelFile, threads>>

\* GET /model-info
HttpModelInfo ==
    /\ Idle
    /\ LET r == HandleModelInfo(predictor)
       IN last' = [op |-> "model_info", before |-> predictor, status |-> r.status,
                   info |-> r.info]
    /\ UNCHANGED <<predictor, modelFile, threads>>

\* POST /retrain
HttpRetrain ==
    /\ Idle
    /\ predictor' = PredictorAfterRetrain(predictor)
    /\ last' = [op |-> "retrain", before |-> predictor, status |-> RetrainStatus]
    /\ UNCHANGED <<modelFile, threads>>

\* raw values inside the ranges the generator clips to: attendance 30..100,
\* days 1..60, syllabus 10..100, past performance 40..95
GeneratorRaw ==
    {<<a, d, s, p>> : a \in {v \in AttendanceValues : v >= 30}, d \in 1..MaxDays,
                      s \in {v \in SyllabusValues : v >= 10}, p \in {40, 85}}

\* one iteration of generate_synthetic_training_data: a record is appended
GenerateTrainingRecord ==
    /\ Idle
    /\ \E raw \in GeneratorRaw, outcome \in {0, 1} :
         last' = [op |-> "training_record", raw |-> raw,
                  record |-> TrainingRecord(raw[1], raw[2], raw[3], raw[4], outcome)]
    /\ UNCHANGED <<predictor, modelFile, threads>>

\* the call returns: its response is handed to the caller
Return ==
    /\ ~Idle
    /\ last' = [op |-> "idle"]
    /\ UNCHANGED <<predictor, modelFile, threads>>

Next ==
    \/ Startup
    \/ HttpPredict
    \/ FacadePredict
    \/ FacadeBatchPredict
    \/ FacadeGetModelInfo
    \/ FacadePredictTwice
    \/ HttpBatchPredict
    \/ HttpModelInfo
    \/ HttpRetrain
    \/ GenerateTrainingRecord
    \/ Return

Spec == Init /\ [][Next]_vars

(***************************************************************************)
(* Concurrent callers of one facade: predict in steps.                     *)
(***************************************************************************)
ConcFeatures == {<<85, 20, 95, 50>>, <<0, 0, 61, 0>>, <<85, 3, 95>>}

\* the facade was constructed before the callers start
InitConc ==
    /\ modelFile \in ModelFiles
    /\ predictor = BunkPredictorInit(modelFile)
    /\ last = [op |-> "boot"]
    /\ threads = [t \in Threads |-> IdleThread]

\* a caller enters predict(features, has_upcoming_exams)
ThreadEnter ==
    \E t \in Threads :
        /\ threads[t].pc = "idle"
        /\ \E features \in ConcFeatures, has_upcoming_exams \in BOOLEAN :
             threads' = [threads EXCEPT ![t] =
                            [IdleThread EXCEPT !.pc = "entered", !.features = features,
                                               !.has_upcoming_exams = has_upcoming_exams]]
        /\ UNCHANGED <<predictor, modelFile, last>>

\* `if self.use_ml:` reads the mode of the shared facade
ThreadDispatch ==
    \E t \in Threads :
        /\ threads[t].pc = "entered"
        /\ threads' = [threads EXCEPT ![t].pc = "backend", ![t].use_ml = predictor.use_ml]
        /\ UNCHANGED <<predictor, modelFile, last>>

\* the chosen backend runs on the shared model object; whatever predict
\* assigns to the facade takes effect here
ThreadBackend ==
    \E t \in Threads :
        /\ threads[t].pc = "backend"
        /\ threads' = [threads EXCEPT ![t].pc = "done",
                          ![t].result = Predict([predictor EXCEPT !.use_ml = threads[t].use_ml],
                                                threads[t].features,
                                                threads[t].has_upcoming_exams)]
        /\ predictor' = FacadeAfterPredict(predictor, threads[t].features)
        /\ UNCHANGED <<modelFile, last>>

\* the caller takes its result
ThreadReturn ==
    \E t \in Threads :
        /\ threads[t].pc = "done"
        /\ threads' = [threads EXCEPT ![t] = IdleThread]
        /\ UNCHANGED <<predictor, modelFile, last>>

NextConc ==
    \/ ThreadEnter
    \/ ThreadDispatch
    \/ ThreadBackend
    \/ ThreadReturn

SpecConc == InitConc /\ [][NextConc]_vars

(***************************************************************************)
(* Concurrent POST /predict requests on a process whose predictor is still *)
(* uninitialised (the server handles each request in its own thread).      *)
(***************************************************************************)
\* validated requests as they reach the lazy initialisation: the feature
\* list; days_until_exam = 0 is the no-exam sentinel
LazyFeatures == {<<85, 20, 95, 50>>, <<0, 0, 61, 0>>}

\* last.ruleAnswered: some request was already answered by a rule-based predictor
InitLazy ==
    /\ predictor = None
    /\ modelFile \in ModelFiles
    /\ last = [op |-> "serving", ruleAnswered |-> FALSE]
    /\ threads = [t \in Threads |-> IdleThread]

\* a request passed validation
RequestArrives ==
    \E t \in Threads :
        /\ threads[t].pc = "idle"
        /\ \E features \in LazyFeatures :
             threads' = [threads EXCEPT ![t] =
                            [IdleThread EXCEPT !.pc = "check", !.features = features,
                                               !.has_upcoming_exams = features[2] # 0]]
        /\ UNCHANGED <<predictor, modelFile, last>>

\* `if predictor is None:` reads the global
RequestChecks ==
    \E t \in Threads :
        /\ threads[t].pc = "check"
        /\ threads' = [threads EXCEPT ![t].pc = IF predictor = None THEN "init" ELSE "call"]
        /\ UNCHANGED <<predictor, modelFile, last>>

\* initialize_predictor(): constructs a facade from the artifact as it is now
\* and assigns the global; 503 if the constructor raised
RequestInitializes ==
    \E t \in Threads :
        /\ threads[t].pc = "init"
        /\ \E ctorOk \in BOOLEAN :
             LET r == InitializePredictor(predictor, modelFile, ctorOk)
             IN /\ predictor' = r.predictor
                /\ threads' = [threads EXCEPT ![t].pc = IF r.ok THEN "call" ELSE "done"]
        /\ UNCHANGED <<modelFile, last>>

\* result = predictor.predict(features, has_upcoming_exams) on the global as it is now
RequestCalls ==
    \E t \in Threads :
        /\ threads[t].pc = "call"
        /\ threads' = [threads EXCEPT ![t].pc = "done",
                          ![t].use_ml = predictor.use_ml,
                          ![t].result = Predict(predictor, threads[t].features,
                                                threads[t].has_upcoming_exams)]
        /\ predictor' = FacadeAfterPredict(predictor, threads[t].features)
        /\ last' = [last EXCEPT !.ruleAnswered = @ \/ ~predictor.use_ml]
        /\ UNCHANGED modelFile

\* the response is sent
RequestResponds ==
    \E t \in Threads :
        /\ threads[t].pc = "done"
        /\ threads' = [threads EXCEPT ![t] = IdleThread]
        /\ UNCHANGED <<predictor, modelFile, last>>

\* the model artifact is written while the process runs (training finished)
ArtifactAppears ==
    /\ ~modelFile.exists
    /\ modelFile' \in {file \in ModelFiles : file.exists}
    /\ UNCHANGED <<predictor, last, threads>>

NextLazy ==
    \/ RequestArrives
    \/ RequestChecks
    \/ RequestInitializes
    \/ RequestCalls
    \/ RequestResponds
    \/ ArtifactAppears

SpecLazy == InitLazy /\ [][NextLazy]_vars

(***************************************************************************)
(* Properties.                                                             *)
(***************************************************************************)
\* the results handed out in the current state by BunkPredictor.predict
ResultsNow ==
    IF last.op = "predict" THEN {last.result}
    ELSE IF last.op = "batch_predict"
         THEN {last.results[i] : i \in 1..Len(last.results)}
    ELSE IF last.op = "http_predict" /\ last.call.made THEN {last.result}
    ELSE {}

IsDegraded(r) ==
    /\ "raised" \notin DOMAIN r
    /\ r.prediction = "Not Safe"
    /\ r.confidence = 5000
    /\ r.risk_level = "high"
    /\ r.explanation = "Error in prediction calculation"

Triple(r) == <<r.prediction, r.confidence, r.risk_level>>

RuleModeCall ==
    /\ last.op = "predict"
    /\ ~last.facade.use_ml
    /\ Len(last.features) = 4

\* C1: every result of BunkPredictor.predict, in both modes, degraded or
\* adjusted for "no exam" included, pairs risk_level and recommendation only
\* as low/Safe to Bunk, medium/Moderate Risk or high/Not Safe.
C1_RiskMatchesRecommendation ==
    \A r \in ResultsNow :
        /\ "raised" \notin DOMAIN r
        /\ <<r.risk_level, r.prediction>> \in
              {<<"low", "Safe to Bunk">>, <<"medium", "Moderate Risk">>, <<"high", "Not Safe">>}

\* the no-exam adjustment promoted a Moderate Risk result to Safe to Bunk
C1_Witness ==
    /\ last.op = "predict"
    /\ last.facade.use_ml
    /\ ~last.has_upcoming_exams
    /\ Len(last.features) = 4
    /\ "probability_safe" \in DOMAIN last.result
    /\ last.result.probability_not_safe > 3000
    /\ last.result.probability_safe >= 7000
    /\ last.result.risk_level = "low"

\* C2: predict never raises to its caller; when the selected backend raises
\* (wrong-length feature list, untrained model, scaler of another width)
\* predict returns Not Safe / 0.5 / high / "Error in prediction calculation".
C2_PredictNeverRaises ==
    last.op = "predict" =>
        /\ "raised" \notin DOMAIN last.result
        /\ ( \/ Len(last.features) # 4
             \/ (last.facade.use_ml /\ ~last.facade.ml_model.is_trained)
             \/ (last.facade.use_ml /\ last.facade.ml_model.n_features # 6) )
           => IsDegraded(last.result)

\* a too-short list made features[3] raise and the degraded result came back
C2_Witness ==
    /\ last.op = "predict"
    /\ Len(last.features) < 4
    /\ IsDegraded(last.result)
    /\ last.result.error = "IndexError"

\* C3: when the artifact is absent or load_model raises, the constructed
\* facade is in rule-based mode and every predict call returns exactly the
\* Rule Engine's result for its input (the degraded result for a list the
\* Rule Engine cannot unpack), never raising.
LoadFails == ~modelFile.exists \/ modelFile.load # "ok"

C3_FallbackServesRules ==
    (LoadFails /\ predictor # None) =>
        /\ ~predictor.use_ml
        /\ last.op = "predict" =>
              /\ "raised" \notin DOMAIN last.result
              /\ IF Len(last.features) = 4
                 THEN last.result = PredictWithRules(last.features, last.has_upcoming_exams)
                 ELSE IsDegraded(last.result)
        /\ (last.op = "http_predict" /\ last.call.made) =>
              last.result = PredictWithRules(last.call.features, last.call.has_upcoming_exams)

\* load_model raised half-way (bundle without 'metrics'), rules answered
C3_Witness ==
    /\ modelFile.exists
    /\ modelFile.load = "missing_key"
    /\ last.op = "predict"
    /\ predictor.ml_model.feature_names = "file"
    /\ last.result.prediction = "Safe to Bunk"
    /\ last.result.confidence = 8000

\* C4: once the facade is constructed its mode never changes, whatever
\* predict, batch_predict or get_model_info calls follow and whether or not
\* their backend raises.
C4_ModeIsPermanent ==
    [][predictor # None => (predictor' # None /\ predictor'.use_ml = predictor.use_ml)]_vars

\* an ML_ACTIVE facade whose backend raised on a well-formed request
C4_Witness ==
    /\ last.op = "predict"
    /\ predictor.use_ml
    /\ Len(last.features) = 4
    /\ IsDegraded(last.result)

\* C5: with an exam upcoming and days_until_exam <= 2 the Rule Engine answers
\* Not Safe / 0.95 / high for every attendance, syllabus and past performance.
C5_RuleFloor ==
    (RuleModeCall /\ last.has_upcoming_exams /\ last.features[2] <= 2) =>
        Triple(last.result) = <<"Not Safe", 9500, "high">>

\* the floor overrode perfect attendance and syllabus two days before the exam
C5_Witness ==
    /\ RuleModeCall
    /\ last.has_upcoming_exams
    /\ last.features = <<100, 2, 100, 85>>
    /\ Triple(last.result) = <<"Not Safe", 9500, "high">>

\* the first-match-wins table of the specification, rows in its order
SpecTable(attendance, days, syllabus, has_exam) ==
    CASE ~has_exam /\ attendance >= 85 -> <<"Safe to Bunk", 8500, "low">>
      [] ~has_exam /\ attendance < 85 /\ attendance >= 75 -> <<"Moderate Risk", 6500, "medium">>
      [] ~has_exam /\ attendance < 75 -> <<"Not Safe", 7000, "high">>
      [] has_exam /\ days <= 2 -> <<"Not Safe", 9500, "high">>
      [] has_exam /\ days \in 3..5 /\ attendance >= 90 /\ syllabus >= 95 ->
            <<"Moderate Risk", 7000, "medium">>
      [] has_exam /\ days \in 3..5 /\ ~(attendance >= 90 /\ syllabus >= 95) ->
            <<"Not Safe", 8500, "high">>
      [] has_exam /\ days \in 6..10 /\ attendance >= 85 /\ syllabus >= 80 ->
            <<"Moderate Risk", 6500, "medium">>
      [] has_exam /\ days \in 6..10 /\ ~(attendance >= 85 /\ syllabus >= 80) ->
            <<"Not Safe", 7500, "high">>
      [] has_exam /\ days > 10 /\ attendance >= 85 /\ syllabus >= 70 ->
            <<"Safe to Bunk", 8000, "low">>
      [] has_exam /\ days > 10 /\ ~(attendance >= 85 /\ syllabus >= 70)
                  /\ attendance >= 75 /\ syllabus >= 60 -> <<"Moderate Risk", 6000, "medium">>
      [] OTHER -> <<"Not Safe", 7000, "high">>

\* C6: on every input, thresholds and their neighbours included, the triple
\* returned by the Rule Engine is the one of the specification's table.
C6_RulesMatchTable ==
    RuleModeCall =>
        Triple(last.result) =
            SpecTable(last.features[1], last.features[2], last.features[3],
                      last.has_upcoming_exams)

\* three days before the exam, exactly on both thresholds (90 and 95)
C6_Witness ==
    /\ RuleModeCall
    /\ last.has_upcoming_exams
    /\ last.features[1] = 90 /\ last.features[2] = 3 /\ last.features[3] = 95
    /\ Triple(last.result) = <<"Moderate Risk", 7000, "medium">>

\* C7: two Rule Engine inputs that differ only in past_performance get the
\* same recommendation, confidence, risk_level and explanation; only
\* factors.past_performance differs.
C7_PastPerformanceIgnored ==
    RuleModeCall =>
        \A p2 \in PerformanceValues :
            LET r2 == PredictWithRules([last.features EXCEPT ![4] = p2],
                                       last.has_upcoming_exams)
            IN /\ r2.prediction = last.result.prediction
               /\ r2.confidence = last.result.confidence
               /\ r2.risk_level = last.result.risk_level
               /\ r2.explanation = last.result.explanation
               /\ r2.factors = [last.result.factors EXCEPT !.past_performance = p2]

\* the weakest past performance still got Safe to Bunk
C7_Witness ==
    /\ RuleModeCall
    /\ last.features[4] = 0
    /\ last.result.prediction = "Safe to Bunk"
    /\ last.result.factors.past_performance = 0

\* a POST /predict request that passes validation
ValidRequest(data) ==
    /\ data.kind = "object"
    /\ \A i \in 1..Len(RequiredFields) : data[RequiredFields[i]].t = "num"
    /\ \A i \in {1, 3, 4} : data[RequiredFields[i]].v \in 0..100
    /\ data.exam_proximity.v \in 0..100

SentinelRequest ==
    /\ last.op = "http_predict"
    /\ ValidRequest(last.request)
    /\ last.request.exam_proximity.v = 100
    /\ last.call.made

\* C8 as claimed: exam_proximity = 1.0 reaches the predictor as
\* has_upcoming_exams = False, days_until_exam = 0, and with attendance >= 85
\* the recommendation is Safe to Bunk.
C8_SentinelAlwaysSafe ==
    SentinelRequest =>
        /\ ~last.call.has_upcoming_exams
        /\ last.call.features[2] = 0
        /\ last.request.attendance_percentage.v >= 85 => last.result.prediction = "Safe to Bunk"

\* C8 amended: exam_proximity = 1.0 reaches the predictor as
\* has_upcoming_exams = False, days_until_exam = 0, and with attendance >= 85
\* a facade in rule-based mode recommends Safe to Bunk.
C8_SentinelSafeInRuleMode ==
    SentinelRequest =>
        /\ ~last.call.has_upcoming_exams
        /\ last.call.features[2] = 0
        /\ (last.request.attendance_percentage.v >= 85 /\ ~predictor.use_ml)
              => Triple(last.result) = <<"Safe to Bunk", 8500, "low">>

\* the example of the specification: 89 / 1.0 / 100 / 85 in rule-based mode
C8_Witness ==
    /\ SentinelRequest
    /\ ~predictor.use_ml
    /\ last.request.attendance_percentage.v = 89
    /\ last.request.syllabus_completion.v = 100
    /\ last.request.past_performance.v = 85
    /\ last.call.features = <<89, 0, 100, 85>>
    /\ last.result.prediction = "Safe to Bunk"

\* a JSON object in which a required field is missing, non-numeric or out of range
InvalidRequest(data) ==
    /\ data.kind = "object"
    /\ \E i \in 1..Len(RequiredFields) :
          LET j == data[RequiredFields[i]]
          IN \/ j.t \in {"missing", "str", "null", "huge"}
             \/ j.t = "num" /\ j.v < 0
             \/ j.t = "num" /\ j.v > 100

\* C9: a request with a missing, non-numeric or out-of-range required field
\* is answered 400, and neither the predictor's initialisation nor its
\* predict is invoked, so the process-wide predictor is unchanged.
C9_InvalidRequestIs400 ==
    (last.op = "http_predict" /\ InvalidRequest(last.request)) =>
        /\ last.status = 400
        /\ ~last.initCalled
        /\ ~last.call.made
        /\ predictor = last.before

\* C10: for a request that passes validation, an uninitialised predictor is
\* initialised first; if that fails the answer is 503 and the predictor stays
\* uninitialised; otherwise the answer is 200 with the prediction and a
\* metadata object carrying subject and user_id ('Unknown', 'anonymous' by
\* default).
C10_ValidRequestOutcome ==
    (last.op = "http_predict" /\ ValidRequest(last.request)) =>
        /\ last.initCalled <=> (last.before = None)
        /\ IF last.initCalled /\ ~last.initOk
           THEN /\ last.status = 503
                /\ predictor = None
                /\ ~last.call.made
           ELSE /\ last.status = 200
                /\ predictor # None
                /\ last.call.made
                /\ last.result = Predict(predictor, last.call.features,
                                         last.call.has_upcoming_exams)
                /\ last.metadata.subject =
                      (IF last.request.subject = Absent THEN "Unknown"
                       ELSE last.request.subject)
                /\ last.metadata.user_id =
                      (IF last.request.user_id = Absent THEN "anonymous"
                       ELSE last.request.user_id)

\* the constructor raised during the lazy initialisation: 503, still uninitialised
C10_Witness ==
    /\ last.op = "http_predict"
    /\ ValidRequest(last.request)
    /\ last.before = None
    /\ last.initCalled /\ ~last.initOk
    /\ last.status = 503
    /\ predictor = None

\* an accepted batch: the loop ran over N items
AcceptedBatch ==
    /\ last.op = "http_batch"
    /\ last.status = 200

BatchItemsNow == last.request.predictions.items

\* an item missing a required field or carrying a non-numeric value
MalformedItem(item) ==
    /\ item.kind = "object"
    /\ \E k \in 1..Len(RequiredFields) : item[RequiredFields[k]].t \in {"missing", "str", "null"}

\* an item with four numbers
NumericItem(item) ==
    /\ item.kind = "object"
    /\ \A k \in 1..Len(RequiredFields) : item[RequiredFields[k]].t = "num"

\* an item with four numbers, one of them outside its range
OutOfRangeItem(item) ==
    /\ NumericItem(item)
    /\ \/ \E k \in {1, 3, 4} : item[RequiredFields[k]].v \notin 0..100
       \/ item.exam_proximity.v \notin 0..100

ErrorIndexes == {last.errors[k].index : k \in 1..Len(last.errors)}

\* C11: for an accepted batch of N items, k of them malformed (missing field
\* or non-numeric value), served by an initialised predictor,
\* total_processed = N - k, total_errors = k, and results holds the
\* well-formed items in input order.
C11_BatchCounts ==
    (/\ AcceptedBatch
     /\ last.before # None
     /\ \A i \in 1..Len(BatchItemsNow) :
           MalformedItem(BatchItemsNow[i]) \/ NumericItem(BatchItemsNow[i])) =>
        LET wellFormed(i) == NumericItem(BatchItemsNow[i])
            good == SelectSeq([i \in 1..Len(BatchItemsNow) |-> i], wellFormed)
        IN /\ last.total_processed = Len(good)
           /\ last.total_errors = Len(BatchItemsNow) - Len(good)
           /\ Len(last.results) = Len(good)
           /\ \A k \in 1..Len(good) : last.results[k].metadata.index = good[k] - 1

\* C12: an out-of-range item of a batch is rejected by the per-item
\* validation: it is recorded in errors and predictor.predict is never
\* called with its values.
C12_OutOfRangeItemRejected ==
    AcceptedBatch =>
        \A i \in 1..Len(BatchItemsNow) :
            OutOfRangeItem(BatchItemsNow[i]) =>
                /\ (i - 1) \in ErrorIndexes
                /\ (i - 1) \notin last.passed

\* C13: POST /batch-predict answers 400 exactly when the body has no
\* 'predictions' key, 'predictions' is not a list, is empty, or has more
\* than 100 items; a list of 1 to 100 items is answered 200.
C13_Batch400Exactly ==
    last.op = "http_batch" =>
        LET data == last.request
            noKey == data.kind # "object" \/ data.predictions.t = "missing"
            notList == ~noKey /\ data.predictions.t # "list"
            isList == ~noKey /\ data.predictions.t = "list"
            n == Len(data.predictions.items)
        IN /\ last.status = 400 <=> (noKey \/ notList \/ (isList /\ (n = 0 \/ n > 100)))
           /\ (isList /\ n >= 1 /\ n <= 100) => last.status = 200

\* C14: in an accepted batch of N items every index 0..N-1 ends up exactly
\* once in results (metadata.index) or errors (index), whatever failed
\* before it, so total_processed + total_errors = N.
C14_BatchIsolation ==
    AcceptedBatch =>
        /\ last.total_processed + last.total_errors = Len(BatchItemsNow)
        /\ last.total_processed = Len(last.results)
        /\ last.total_errors = Len(last.errors)
        /\ \A i \in 0..(Len(BatchItemsNow) - 1) :
              Cardinality({k \in 1..Len(last.errors) : last.errors[k].index = i})
              + Cardinality({k \in 1..Len(last.results) :
                                last.results[k].metadata.index = i}) = 1

\* the first item failed the field check, the second one was still processed
C14_Witness ==
    /\ AcceptedBatch
    /\ Len(BatchItemsNow) = 2
    /\ BatchItemsNow[1].exam_proximity.t = "missing"
    /\ BatchItemsNow[2] = GoodItem
    /\ last.errors[1].error = "Missing fields"
    /\ 1 \in last.passed
    /\ ErrorIndexes = {0, 1}

\* C15: GET /model-info answers 503 while the predictor is uninitialised and
\* 200 with the feature list and the static metadata once it is initialised,
\* in either mode.
C15_ModelInfoStatus ==
    last.op = "model_info" =>
        IF last.before = None THEN last.status = 503
        ELSE /\ last.status = 200
             /\ last.info # None

\* C16: POST /retrain answers 501 in every state of the service and leaves
\* the process-wide predictor and its mode unchanged.
C16_RetrainIs501 ==
    last.op = "retrain" =>
        /\ last.status = 501
        /\ predictor = last.before

\* retrain asked of a service whose facade is ML_ACTIVE
C16_Witness ==
    /\ last.op = "retrain"
    /\ last.before # None
    /\ last.before.use_ml
    /\ predictor.use_ml
    /\ last.status = 501

\* C17: every result of BunkPredictor.predict, the degraded one included,
\* carries a recommendation, a confidence in [0,1], a risk_level, a factors
\* record echoing the four inputs and an explanation.
C17_ResultIsWellFormed ==
    last.op = "predict" =>
        /\ {"prediction", "confidence", "risk_level", "factors", "explanation"}
              \subseteq DOMAIN last.result
        /\ last.result.prediction \in {"Safe to Bunk", "Moderate Risk", "Not Safe"}
        /\ last.result.confidence \in 0..10000
        /\ last.result.risk_level \in {"low", "medium", "high"}
        /\ Len(last.features) = 4 =>
              last.result.factors =
                  [attendance |-> last.features[1], exam_proximity |-> last.features[2],
                   syllabus_progress |-> last.features[3],
                   past_performance |-> last.features[4]]

\* C18: two successive predict calls with the same features and the same
\* has_upcoming_exams return the same result, and the calls leave the facade
\* as it was.
C18_PredictIsIdempotent ==
    last.op = "predict_twice" =>
        /\ last.first = last.second
        /\ predictor = last.facade

\* twice through the ML path with the no-exam boost applied to the result
C18_Witness ==
    /\ last.op = "predict_twice"
    /\ last.facade.use_ml
    /\ ~last.has_upcoming_exams
    /\ "probability_safe" \in DOMAIN last.first
    /\ last.first.probability_safe + last.first.probability_not_safe > 10000
    /\ last.second.probability_safe = last.first.probability_safe

\* the artifact loads without raising but cannot serve predictions
IncompatibleArtifact ==
    /\ modelFile.exists
    /\ modelFile.load = "ok"
    /\ (~modelFile.is_trained \/ modelFile.n_features # 6)

\* C20: an artifact that loads but is not marked trained, or whose scaler
\* expects another feature count, is detected at load time: the facade is in
\* rule-based mode and answers with the Rule Engine's results.
C20_IncompatibleArtifactDetected ==
    (IncompatibleArtifact /\ predictor # None) =>
        /\ ~predictor.use_ml
        /\ (last.op = "predict" /\ Len(last.features) = 4) =>
              last.result = PredictWithRules(last.features, last.has_upcoming_exams)

\* C19: predict writes no field of the facade or of its model object, so
\* under every interleaving of concurrent predict calls each call returns the
\* result it returns when run alone on the constructed facade.
C19_ConcurrentPredictIsolated ==
    /\ predictor = BunkPredictorInit(modelFile)
    /\ \A t \in Threads :
          threads[t].pc = "done" =>
              threads[t].result = Predict(BunkPredictorInit(modelFile), threads[t].features,
                                          threads[t].has_upcoming_exams)

\* one caller got the degraded result of a failing ML backend while another
\* one, with another input, is still inside the backend
C19_Witness ==
    \E t, u \in Threads :
        /\ t # u
        /\ predictor.use_ml
        /\ threads[t].pc = "done"
        /\ IsDegraded(threads[t].result)
        /\ Len(threads[t].features) = 4
        /\ threads[u].pc = "backend"
        /\ threads[u].features # threads[t].features

\* a POST /predict request with exam_proximity in [0,1) that reached the predictor
ConvertedRequest ==
    /\ last.op = "http_predict"
    /\ ValidRequest(last.request)
    /\ last.request.exam_proximity.v < 100
    /\ last.call.made

\* C21 as claimed: for every accepted exam_proximity p in [0,1) the
\* days_until_exam passed to the predictor is max(1, round(p * 30)).
C21_DaysAreRounded ==
    ConvertedRequest =>
        last.call.features[2] = Max(1, RoundDiv(last.request.exam_proximity.v * 30, 100))

\* C21 amended: for every accepted exam_proximity p in [0,1) the
\* days_until_exam passed to the predictor is max(1, floor(p * 30)): the
\* largest whole number of days not above p * 30, and 1 when p * 30 < 1.
C21_DaysAreTruncated ==
    ConvertedRequest =>
        LET d == last.call.features[2]
            x == last.request.exam_proximity.v * 30
        IN /\ d >= 1
           /\ d * 100 <= x \/ d = 1
           /\ x < (d + 1) * 100

\* exam_proximity 0.09 is 2.7 days: 2 days reach the predictor, not 3
C21_Witness ==
    /\ ConvertedRequest
    /\ last.request.exam_proximity.v = 9
    /\ last.call.features[2] = 2
    /\ last.call.has_upcoming_exams

\* the proximities of [0,1) in hundredths
Proximities == 0..99

MlPathCall ==
    /\ last.op = "predict"
    /\ last.facade.use_ml
    /\ "probability_safe" \in DOMAIN last.result

\* C23: in every result of the statistical path, with or without the no-exam
\* adjustment, recommendation and risk_level are the bucket of the
\* probability_safe of that same result: >= 0.7 Safe to Bunk / low, >= 0.4
\* Moderate Risk / medium, otherwise Not Safe / high.
C23_BucketMatchesProbability ==
    MlPathCall =>
        <<last.result.prediction, last.result.risk_level>> =
            (IF last.result.probability_safe >= 7000 THEN <<"Safe to Bunk", "low">>
             ELSE IF last.result.probability_safe >= 4000 THEN <<"Moderate Risk", "medium">>
             ELSE <<"Not Safe", "high">>)

\* the probability_safe that BunkPredictionModel.predict handed to the facade
ClassifierOutput ==
    MlPredict(last.facade.ml_model,
              MlFeatures(last.features[1], last.features[2], last.features[3],
                         last.features[4])).probability_safe

C25_ConfidenceMatchesProbability ==
    MlPathCall =>
        last.result.confidence =
            (IF last.result.probability_safe >= 10000 - last.result.probability_safe
             THEN last.result.probability_safe
             ELSE 10000 - last.result.probability_safe)

\* C26: every non-degraded result of predict has an explanation of exactly
\* three clauses (attendance, exam proximity, syllabus), and it is the
\* explanation the rule backend gives for the same input and has_upcoming_exams.
C26_ExplanationBackendIndependent ==
    (last.op = "predict" /\ ~IsDegraded(last.result)) =>
        /\ Len(last.result.explanation) = 3
        /\ last.result.explanation =
              PredictWithRules(last.features, last.has_upcoming_exams).explanation

\* C30: with has_upcoming_exams false the statistical path returns a
\* probability_safe that is at least the probability p it was given, for
\* every p in [0,1].
C30_AdjustmentNeverLowers ==
    (MlPathCall /\ ~last.has_upcoming_exams) =>
        last.result.probability_safe >= ClassifierOutput

\* equality of two fractions
SameFraction(x, y) == x[1] * y[2] = y[1] * x[2]

\* C27: for the same raw values the six derived features computed at
\* inference in _predict_with_ml equal the six derived features written into
\* the training record.
C27_TrainingFeaturesAgree ==
    last.op = "training_record" =>
        LET fv == MlFeatures(last.raw[1], last.raw[2], last.raw[3], last.raw[4])
        IN \A k \in DerivedFeatures : SameFraction(last.record[k], fv[k])

\* low < medium < high
RiskRank(level) ==
    CASE level = "low" -> 1 [] level = "medium" -> 2 [] level = "high" -> 3

\* C29: the Rule Engine is monotone: with the other inputs fixed, a higher
\* attendance, a higher syllabus_completion or (exam upcoming) a higher
\* days_until_exam never gives a riskier risk_level; and Safe to Bunk is never
\* returned when an exam is upcoming within 10 days.
C29_RulesMonotone ==
    RuleModeCall =>
        LET f == last.features
            now == RiskRank(last.result.risk_level)
            Risk(g) == RiskRank(PredictWithRules(g, last.has_upcoming_exams).risk_level)
        IN /\ \A a2 \in AttendanceValues : a2 >= f[1] => Risk([f EXCEPT ![1] = a2]) <= now
           /\ \A s2 \in SyllabusValues : s2 >= f[3] => Risk([f EXCEPT ![3] = s2]) <= now
           /\ last.has_upcoming_exams =>
                 \A d2 \in DayValues : d2 >= f[2] => Risk([f EXCEPT ![2] = d2]) <= now
           /\ (last.has_upcoming_exams /\ f[2] <= 10) =>
                 last.result.prediction # "Safe to Bunk"

\* perfect attendance and syllabus ten days before the exam: Moderate Risk
C29_Witness ==
    /\ RuleModeCall
    /\ last.has_upcoming_exams
    /\ last.features[1] = 100 /\ last.features[2] = 10 /\ last.features[3] = 100
    /\ last.result.prediction = "Moderate Risk"
    /\ last.result.risk_level = "medium"

\* C28: under any interleaving of concurrent POST /predict requests that
\* arrive while the predictor is uninitialised, also when the artifact appears
\* in between, once a request was answered by a rule-based predictor no later
\* request is answered by the ML model.
C28_OneModePerProcess ==
    [][\A t \in Threads :
          (last.ruleAnswered /\ threads[t].pc = "call" /\ threads'[t].pc = "done")
              => ~(threads'[t].use_ml /\ "probability_safe" \in DOMAIN threads'[t].result)]_vars

====
